---- MODULE Spec2Model ----
(***************************************************************************)
(* Frequency / probability pipeline of the Wordle letter analysis          *)
(* (src/main.py): letter and positional counting, normalisation to         *)
(* probabilities and the total variation distance.                         *)
(*                                                                         *)
(* Python values are modelled as follows.                                  *)
(*  - str: a sequence of one-character strings; a word list is a sequence  *)
(*    of such sequences.                                                   *)
(*  - dict / Counter: a sequence of <<key, value>> pairs with distinct     *)
(*    keys, in insertion order (Python dicts iterate in insertion order).  *)
(*  - set: iteration order is not defined by the language; every           *)
(*    operation that iterates a set takes the order as a nondeterministic  *)
(*    input.                                                               *)
(*  - int: an integer (the counts stay far below any machine width).       *)
(*  - float: IEEE-754 binary64 with round-to-nearest-even, as a record     *)
(*    [s, m, e] of value s * m * 2^e with a significand of exactly         *)
(*    Precision bits (zero: m = <<>>).  Significands are naturals of       *)
(*    unbounded size, stored as little-endian sequences of limbs.  The     *)
(*    values of this model never approach the exponent range of binary64,  *)
(*    so overflow, subnormals, infinities and NaN are not represented.     *)
(*  - an exception raised by a function: the string naming its class.     *)
(***************************************************************************)
EXTENDS Integers, Sequences, FiniteSets, TLC

(***************************************************************************)
(* Naturals of unbounded size                                              *)
(***************************************************************************)
LimbBits == 15
Base == 2^LimbBits

RECURSIVE Strip(_)
Strip(s) ==
  IF s = <<>> THEN <<>>
  ELSE IF s[Len(s)] = 0 THEN Strip(SubSeq(s, 1, Len(s) - 1)) ELSE s

RECURSIVE NatOfInt(_)
NatOfInt(n) == IF n = 0 THEN <<>> ELSE <<n % Base>> \o NatOfInt(n \div Base)

RECURSIVE AddC(_, _, _)
AddC(a, b, c) ==
  IF a = <<>> /\ b = <<>> THEN (IF c = 0 THEN <<>> ELSE <<c>>)
  ELSE LET x == IF a = <<>> THEN 0 ELSE Head(a)
           y == IF b = <<>> THEN 0 ELSE Head(b)
           t == x + y + c
       IN  <<t % Base>> \o AddC(IF a = <<>> THEN <<>> ELSE Tail(a),
                                IF b = <<>> THEN <<>> ELSE Tail(b),
                                t \div Base)

BAdd(a, b) == AddC(a, b, 0)

RECURSIVE SubB(_, _, _)
SubB(a, b, c) ==
  IF a = <<>> THEN <<>>
  ELSE LET y == IF b = <<>> THEN 0 ELSE Head(b)
           t == Head(a) - y - c
           bt == IF b = <<>> THEN <<>> ELSE Tail(b)
       IN  IF t < 0 THEN <<t + Base>> \o SubB(Tail(a), bt, 1)
           ELSE <<t>> \o SubB(Tail(a), bt, 0)

\* a - b for a >= b
BSub(a, b) == Strip(SubB(a, b, 0))

RECURSIVE CmpFrom(_, _, _)
CmpFrom(a, b, i) ==
  IF i = 0 THEN 0
  ELSE IF a[i] # b[i] THEN (IF a[i] < b[i] THEN -1 ELSE 1)
  ELSE CmpFrom(a, b, i - 1)

\* -1, 0, 1 as a < b, a = b, a > b
BCmp(a, b) ==
  IF Len(a) # Len(b) THEN (IF Len(a) < Len(b) THEN -1 ELSE 1)
  ELSE CmpFrom(a, b, Len(a))

RECURSIVE MulC(_, _, _)
MulC(a, k, c) ==
  IF a = <<>> THEN (IF c = 0 THEN <<>> ELSE <<c>>)
  ELSE LET t == Head(a) * k + c
       IN  <<t % Base>> \o MulC(Tail(a), k, t \div Base)

\* a * k for 0 < k < Base
BMulSmall(a, k) == MulC(a, k, 0)

\* a * 2^n
ShiftLeft(a, n) ==
  IF a = <<>> THEN <<>>
  ELSE MulC([i \in 1..(n \div LimbBits) |-> 0] \o a, 2^(n % LimbBits), 0)

\* [q |-> a \div 2^n, sticky |-> a % 2^n # 0]
ShiftRight(a, n) ==
  LET k    == n \div LimbBits
      b    == n % LimbBits
      low  == SubSeq(a, 1, IF k < Len(a) THEN k ELSE Len(a))
      rest == SubSeq(a, k + 1, Len(a))
      q    == [i \in 1..Len(rest) |->
                 (rest[i] \div 2^b)
                 + (IF i < Len(rest) THEN (rest[i + 1] % 2^b) * 2^(LimbBits - b) ELSE 0)]
  IN  [q |-> Strip(q),
       sticky |-> (\E i \in 1..Len(low) : low[i] # 0)
                  \/ (rest # <<>> /\ rest[1] % 2^b # 0)]

RECURSIVE IntBitLen(_)
IntBitLen(n) == IF n = 0 THEN 0 ELSE 1 + IntBitLen(n \div 2)

BitLen(a) == IF a = <<>> THEN 0 ELSE LimbBits * (Len(a) - 1) + IntBitLen(a[Len(a)])

IsOdd(a) == a # <<>> /\ a[1] % 2 = 1

(***************************************************************************)
(* Python float: IEEE-754 binary64, round-to-nearest, ties-to-even         *)
(***************************************************************************)
Precision == 53

Zero == [s |-> 1, m |-> <<>>, e |-> 0]

\* The float nearest to sgn * n * 2^e (n a natural), ties to even.
Round(sgn, n, e) ==
  LET len == BitLen(n) IN
  IF n = <<>> THEN Zero
  ELSE IF len <= Precision
       THEN [s |-> sgn, m |-> ShiftLeft(n, Precision - len), e |-> e - (Precision - len)]
       ELSE LET d     == len - Precision
                sh    == ShiftRight(n, d - 1)
                guard == IsOdd(sh.q)
                q     == ShiftRight(sh.q, 1).q
                up    == guard /\ (sh.sticky \/ IsOdd(q))
                m1    == IF up THEN BAdd(q, <<1>>) ELSE q
            IN  IF BitLen(m1) > Precision
                THEN [s |-> sgn, m |-> ShiftRight(m1, 1).q, e |-> e + d + 1]
                ELSE [s |-> sgn, m |-> m1, e |-> e + d]

\* float(n) for an int n
FloatOfInt(n) == IF n < 0 THEN Round(-1, NatOfInt(-n), 0) ELSE Round(1, NatOfInt(n), 0)

One == FloatOfInt(1)

FNeg(x) == IF x.m = <<>> THEN x ELSE [x EXCEPT !.s = -x.s]

FAbs(x) == [x EXCEPT !.s = 1]

\* x + y, correctly rounded
FAdd(x, y) ==
  IF x.m = <<>> THEN y
  ELSE IF y.m = <<>> THEN x
  ELSE LET e0 == IF x.e < y.e THEN x.e ELSE y.e
           X  == ShiftLeft(x.m, x.e - e0)
           Y  == ShiftLeft(y.m, y.e - e0)
           c  == BCmp(X, Y)
       IN  IF x.s = y.s THEN Round(x.s, BAdd(X, Y), e0)
           ELSE IF c = 0 THEN Zero
           ELSE IF c > 0 THEN Round(x.s, BSub(X, Y), e0)
           ELSE Round(y.s, BSub(Y, X), e0)

\* x - y, correctly rounded
FSub(x, y) == FAdd(x, FNeg(y))

\* x / 2 (exact)
FHalf(x) == IF x.m = <<>> THEN x ELSE [x EXCEPT !.e = x.e - 1]

\* -1, 0, 1 as x < y, x = y, x > y
FCmp(x, y) ==
  LET d == FSub(x, y) IN IF d.m = <<>> THEN 0 ELSE d.s

FLe(x, y) == FCmp(x, y) <= 0

FLt(x, y) == FCmp(x, y) < 0

\* k limbs of the binary expansion of r / d (0 <= r < d < Base), least
\* significant first, and the remainder left
RECURSIVE FracLimbs(_, _, _)
FracLimbs(r, d, k) ==
  IF k = 0 THEN [limbs |-> <<>>, r |-> r]
  ELSE LET rest == FracLimbs((r * Base) % d, d, k - 1)
       IN  [limbs |-> rest.limbs \o <<(r * Base) \div d>>, r |-> rest.r]

\* n / d for ints n >= 0 and 0 < d < Base: Python's int true division is
\* correctly rounded.  The quotient is developed to 6 limbs after the binary
\* point, which leaves more than Precision + 2 significant bits, and a
\* non-zero remainder is kept as a trailing sticky bit.
TrueDiv(n, d) ==
  LET fr == FracLimbs(n % d, d, 6)
      N  == Strip(fr.limbs \o NatOfInt(n \div d))
      N2 == BAdd(BMulSmall(N, 2), IF fr.r # 0 THEN <<1>> ELSE <<>>)
  IN  Round(1, N2, -(LimbBits * 6) - 1)

(***************************************************************************)
(* Python builtins used by the pipeline                                    *)
(***************************************************************************)
\* The outcome of a call: not made yet, a returned value, a raised exception.
NotCalled == [called |-> FALSE]

Returned(v) == [returned |-> v]

Raised(exc) == [raised |-> exc]

HasReturned(r) == "returned" \in DOMAIN r

\* dict: a sequence of <<key, value>> pairs in insertion order
HasKey(d, k) == \E i \in 1..Len(d) : d[i][1] = k

Keys(d) == {d[i][1] : i \in 1..Len(d)}

Values(d) == [i \in 1..Len(d) |-> d[i][2]]

\* d.get(k, default)
Get(d, k, default) ==
  IF HasKey(d, k) THEN d[CHOOSE i \in 1..Len(d) : d[i][1] = k][2] ELSE default

\* The strings of a sequence, concatenated
RECURSIVE Flatten(_)
Flatten(ws) == IF ws = <<>> THEN <<>> ELSE Head(ws) \o Flatten(Tail(ws))

\* "".join(word_list[1:]): the first word left out
JoinTail(ws) == IF ws = <<>> THEN <<>> ELSE Flatten(Tail(ws))

\* "".join(word_list)
Join(ws) == Flatten(ws)

\* self[elem] = 1: an element seen again is not counted again
CountElemOnce(d, elem) == IF HasKey(d, elem) THEN d ELSE Append(d, <<elem, 1>>)

\* Counter: self[elem] = self.get(elem, 0) + 1
CountElem(d, elem) ==
  IF HasKey(d, elem)
  THEN [i \in 1..Len(d) |-> IF d[i][1] = elem THEN <<elem, d[i][2] + 1>> ELSE d[i]]
  ELSE Append(d, <<elem, 1>>)

\* Counter(iterable): the elements counted in order of first occurrence
RECURSIVE Counter(_)
Counter(iterable) ==
  IF iterable = <<>> THEN <<>>
  ELSE CountElem(Counter(SubSeq(iterable, 1, Len(iterable) - 1)), iterable[Len(iterable)])

\* sum() of ints
RECURSIVE SumInts(_)
SumInts(xs) == IF xs = <<>> THEN 0 ELSE Head(xs) + SumInts(Tail(xs))

(***************************************************************************)
(* Section 3 of main.py: data processing                                   *)
(***************************************************************************)
calculate_letter_frequency(word_list_) == Counter(Join(word_list_))

\* position_counts[position] = ...: the entries stored 0-based
calculate_positional_frequency_zero_based(word_list_) ==
  IF word_list_ = <<>> THEN Raised("IndexError")
  ELSE LET word_length == Len(word_list_[1]) IN
       IF \E w \in 1..Len(word_list_) : Len(word_list_[w]) < word_length
       THEN Raised("IndexError")
       ELSE Returned([p \in 1..word_length |->
              <<p - 1, Counter([w \in 1..Len(word_list_) |-> word_list_[w][p]])>>])

\* [word[position] for word in word_list if position < len(word)]: a word
\* with no character at position is passed over
calculate_positional_frequency_skip_short(word_list_) ==
  IF word_list_ = <<>> THEN Raised("IndexError")
  ELSE LET word_length == Len(word_list_[1]) IN
       Returned([p \in 1..word_length |->
         <<p, Counter(LET at == SelectSeq(word_list_, LAMBDA w : p <= Len(w))
                      IN  [w \in 1..Len(at) |-> at[w][p]])>>])

\* word_list[0] raises IndexError on an empty list and word[position] raises
\* it on a word with no character at position; the loop is over
\* range(word_length) and stores under position + 1.
calculate_positional_frequency(word_list_) ==
  IF word_list_ = <<>> THEN Raised("IndexError")
  ELSE LET word_length == Len(word_list_[1]) IN
       IF \E position \in 0..(word_length - 1) :
            \E w \in 1..Len(word_list_) : ~(position < Len(word_list_[w]))
       THEN Raised("IndexError")
       ELSE Returned([p \in 1..word_length |->
              <<p, Counter([w \in 1..Len(word_list_) |-> word_list_[w][p]])>>])

(***************************************************************************)
(* Sections 4 and 6 of main.py: probabilities and deviation                *)
(***************************************************************************)
\* sum() of floats as CPython before 3.12 computes it: left to right
RECURSIVE SumLeftToRight(_, _)
SumLeftToRight(acc, xs) ==
  IF xs = <<>> THEN acc ELSE SumLeftToRight(FAdd(acc, Head(xs)), Tail(xs))

\* sum() of floats as CPython 3.12 and later computes it: Neumaier's
\* compensated summation, the compensation c added at the end
RECURSIVE SumNeumaier(_, _, _)
SumNeumaier(f, c, xs) ==
  IF xs = <<>> THEN (IF c.m # <<>> THEN FAdd(f, c) ELSE f)
  ELSE LET x == Head(xs)
           t == FAdd(f, x)
           d == IF FCmp(FAbs(f), FAbs(x)) >= 0
                THEN FAdd(FSub(f, t), x)
                ELSE FAdd(FSub(x, t), f)
       IN  SumNeumaier(t, FAdd(c, d), Tail(xs))

\* sum(xs) for floats xs, from the int 0; which summation runs depends on the
\* interpreter (compensated: CPython >= 3.12)
PySum(xs, compensated) ==
  IF xs = <<>> THEN Zero
  ELSE IF compensated THEN SumNeumaier(Head(xs), Zero, Tail(xs))
  ELSE SumLeftToRight(Head(xs), Tail(xs))

\* {k: v / len(freq_dict) ...}: divided by the number of keys
calculate_probabilities_by_keys(freq_dict_, total_count_) ==
  IF \E i \in 1..Len(freq_dict_) : total_count_ = 0
  THEN Raised("ZeroDivisionError")
  ELSE Returned([i \in 1..Len(freq_dict_) |->
                   <<freq_dict_[i][1], TrueDiv(freq_dict_[i][2], Len(freq_dict_))>>])

\* The total checked before the comprehension: raises on 0 whatever the mapping
calculate_probabilities_checked(freq_dict_, total_count_) ==
  IF total_count_ = 0
  THEN Raised("ZeroDivisionError")
  ELSE Returned([i \in 1..Len(freq_dict_) |->
                   <<freq_dict_[i][1], TrueDiv(freq_dict_[i][2], total_count_)>>])

\* {k: v / total_count for k, v in freq_dict.items()}: the division raises on
\* the first item when total_count is 0; no item, no division.
calculate_probabilities(freq_dict_, total_count_) ==
  IF \E i \in 1..Len(freq_dict_) : total_count_ = 0
  THEN Raised("ZeroDivisionError")
  ELSE Returned([i \in 1..Len(freq_dict_) |->
                   <<freq_dict_[i][1], TrueDiv(freq_dict_[i][2], total_count_)>>])

\* The orders in which a set of keys may be iterated
Orders(keys) ==
  {o \in [1..Cardinality(keys) -> keys] : \A i, j \in DOMAIN o : o[i] = o[j] => i = j}

\* Without abs(): the signed differences summed
total_variation_distance_signed(prob_dist1_, prob_dist2_, order, compensated) ==
  FHalf(PySum([i \in 1..Len(order) |->
                 FSub(Get(prob_dist1_, order[i], Zero), Get(prob_dist2_, order[i], Zero))],
              compensated))

\* Without / 2
total_variation_distance_not_halved(prob_dist1_, prob_dist2_, order, compensated) ==
  PySum([i \in 1..Len(order) |->
           FAbs(FSub(Get(prob_dist1_, order[i], Zero), Get(prob_dist2_, order[i], Zero)))],
        compensated)

\* keys = set(prob_dist1.keys()) & set(prob_dist2.keys()): the shared keys only
total_variation_distance_shared_keys(prob_dist1_, prob_dist2_, order, compensated) ==
  LET ks == SelectSeq(order, LAMBDA k : HasKey(prob_dist1_, k) /\ HasKey(prob_dist2_, k))
  IN  FHalf(PySum([i \in 1..Len(ks) |->
                     FAbs(FSub(Get(prob_dist1_, ks[i], Zero), Get(prob_dist2_, ks[i], Zero)))],
                  compensated))

\* keys = set(prob_dist1.keys()): the keys of the first distribution only
total_variation_distance_own_keys(prob_dist1_, prob_dist2_, order, compensated) ==
  LET ks == SelectSeq(order, LAMBDA k : HasKey(prob_dist1_, k))
  IN  FHalf(PySum([i \in 1..Len(ks) |->
                     FAbs(FSub(Get(prob_dist1_, ks[i], Zero), Get(prob_dist2_, ks[i], Zero)))],
                  compensated))

\* sum(abs(prob_dist1.get(k, 0) - prob_dist2.get(k, 0)) for k in keys) / 2 with
\* keys = set(prob_dist1.keys()).union(prob_dist2.keys()) iterated in order
total_variation_distance(prob_dist1_, prob_dist2_, order, compensated) ==
  FHalf(PySum([i \in 1..Len(order) |->
                 FAbs(FSub(Get(prob_dist1_, order[i], Zero),
                           Get(prob_dist2_, order[i], Zero)))],
              compensated))

(***************************************************************************)
(* Section 3 of main.py and step 4-1 of main: ranking                      *)
(***************************************************************************)
\* x * k for a float x and 0 < k < Base, correctly rounded
FMulSmall(x, k) == Round(x.s, BMulSmall(x.m, k), x.e)

\* The int a natural of at most two limbs stands for
IntOfNat(a) ==
  IF a = <<>> THEN 0 ELSE IF Len(a) = 1 THEN a[1] ELSE a[1] + Base * a[2]

\* numpy.rint of a float x >= 0, as an int: the nearest integer, ties to even
Rint(x) ==
  IF x.m = <<>> THEN 0
  ELSE IF x.e >= 0 THEN IntOfNat(ShiftLeft(x.m, x.e))
  ELSE LET sh    == ShiftRight(x.m, (-x.e) - 1)
           guard == IsOdd(sh.q)
           q     == ShiftRight(sh.q, 1).q
           up    == guard /\ (sh.sticky \/ IsOdd(q))
       IN  IntOfNat(IF up THEN BAdd(q, <<1>>) ELSE q)

\* Series.round(2) on a float x >= 0: numpy rounds to decimals by
\* rint(x * 100) / 100
Round2(x) == TrueDiv(Rint(FMulSmall(x, 100)), 100)

\* list.sort is stable, and with reverse=True equal keys keep their input
\* order: an item goes behind every item already placed whose count is not
\* smaller
RECURSIVE InsertByFrequency(_, _)
InsertByFrequency(placed, item) ==
  IF placed = <<>> THEN <<item>>
  ELSE IF Head(placed)[2] >= item[2]
       THEN <<Head(placed)>> \o InsertByFrequency(Tail(placed), item)
       ELSE <<item>> \o placed

RECURSIVE SortedByFrequency(_)
SortedByFrequency(items) ==
  IF items = <<>> THEN <<>>
  ELSE InsertByFrequency(SortedByFrequency(SubSeq(items, 1, Len(items) - 1)),
                         items[Len(items)])

\* xs[:n]
SliceTo(xs, n) ==
  LET stop == IF n < 0 THEN (IF Len(xs) + n < 0 THEN 0 ELSE Len(xs) + n)
              ELSE IF n > Len(xs) THEN Len(xs) ELSE n
  IN  SubSeq(xs, 1, stop)

\* As get_top_letters, but equal counts come out in reverse input order
RECURSIVE SortedTiesReversed(_)
SortedTiesReversed(items) ==
  IF items = <<>> THEN <<>>
  ELSE InsertByFrequency(SortedTiesReversed(Tail(items)), Head(items))

get_top_letters_ties_reversed(freq_dict_, top_n_) ==
  LET top == SliceTo(SortedTiesReversed(freq_dict_), top_n_)
  IN  [i \in 1..Len(top) |-> [Letter |-> top[i][1], Frequency |-> top[i][2]]]

\* The DataFrame as the sequence of its rows
get_top_letters(freq_dict_, top_n_) ==
  LET top == SliceTo(SortedByFrequency(freq_dict_), top_n_)
  IN  [i \in 1..Len(top) |-> [Letter |-> top[i][1], Frequency |-> top[i][2]]]

\* As add_percentage, but against the total of the rows kept
add_percentage_of_top(top, freq) ==
  LET total == SumInts([i \in 1..Len(top) |-> top[i].Frequency])
  IN  [i \in 1..Len(top) |->
         [Letter     |-> top[i].Letter,
          Frequency  |-> top[i].Frequency,
          Percentage |-> Round2(FMulSmall(TrueDiv(top[i].Frequency, total), 100))]]

\* main, step 4-1: top["Percentage"] = (top["Frequency"] / total * 100).round(2)
\* with total = sum(freq.values())
add_percentage(top, freq) ==
  LET total == SumInts(Values(freq))
  IN  [i \in 1..Len(top) |->
         [Letter     |-> top[i].Letter,
          Frequency  |-> top[i].Frequency,
          Percentage |-> Round2(FMulSmall(TrueDiv(top[i].Frequency, total), 100))]]


(***************************************************************************)
(* Sections 1 and 2 of main.py: data fetching and file operations.         *)
(* A text is a sequence of characters; a file is absent or holds a text.   *)
(***************************************************************************)
NoFile == [exists |-> FALSE]

FileOf(text) == [exists |-> TRUE, text |-> text]

\* str.split(delimiter): the pieces between the delimiters, at least one
RECURSIVE SplitOn(_, _)
SplitOn(text, delimiter) ==
  IF \A i \in 1..Len(text) : text[i] # delimiter THEN <<text>>
  ELSE LET i == CHOOSE j \in 1..Len(text) :
                  text[j] = delimiter /\ \A k \in 1..(j - 1) : text[k] # delimiter
       IN  <<SubSeq(text, 1, i - 1)>> \o SplitOn(SubSeq(text, i + 1, Len(text)), delimiter)

Whitespace == {" ", "\n"}

\* str.strip()
RECURSIVE StripLeft(_)
StripLeft(text) ==
  IF text # <<>> /\ Head(text) \in Whitespace THEN StripLeft(Tail(text)) ELSE text

RECURSIVE StripRight(_)
StripRight(text) ==
  IF text # <<>> /\ text[Len(text)] \in Whitespace
  THEN StripRight(SubSeq(text, 1, Len(text) - 1))
  ELSE text

StripText(text) == StripLeft(StripRight(text))

\* str.lower() on the characters of the model
LowerChar(c) ==
  IF c = "A" THEN "a" ELSE IF c = "B" THEN "b" ELSE IF c = "C" THEN "c" ELSE c

Lower(text) == [i \in 1..Len(text) |-> LowerChar(text[i])]

split_words_to_list(word_string) ==
  LET pieces == SplitOn(word_string, "|")
  IN  [i \in 1..Len(pieces) |-> Lower(StripText(pieces[i]))]

\* str.splitlines(): the lines, without a last empty one
SplitLines(text) ==
  LET pieces == SplitOn(text, "\n")
  IN  IF pieces[Len(pieces)] = <<>> THEN SubSeq(pieces, 1, Len(pieces) - 1) ELSE pieces

\* "\n".join(words)
RECURSIVE JoinLines(_)
JoinLines(words) ==
  IF words = <<>> THEN <<>>
  ELSE IF Len(words) = 1 THEN words[1]
  ELSE words[1] \o <<"\n">> \o JoinLines(Tail(words))

\* The web page as fetch_wordle_answers sees it: the status code, whether
\* the <h3> header and the <p> after it are found, and the paragraph's text
fetch_wordle_answers(response) ==
  IF response.status_code = 200
  THEN IF response.section_header
       THEN IF response.answers_paragraph
            THEN Returned(StripText(response.text))
            ELSE Raised("ValueError")
       ELSE Raised("ValueError")
  ELSE Raised("ConnectionError")

save_to_file(content, file) == FileOf(content)

read_from_file(file) == file.text

WordLength == 5

\* As save_five_letter_words_to_file, without the test for the file
save_five_letter_words_to_file_always_fetch(file, nltk_words) ==
  LET kept  == SelectSeq(nltk_words, LAMBDA word : Len(word) = WordLength)
      words == [i \in 1..Len(kept) |-> Lower(kept[i])]
  IN  [words |-> words, file |-> FileOf(JoinLines(words)), downloaded |-> TRUE]

\* The words returned, the file left behind and whether the corpus was
\* downloaded
save_five_letter_words_to_file(file, nltk_words) ==
  IF file.exists
  THEN [words |-> SplitLines(file.text), file |-> file, downloaded |-> FALSE]
  ELSE LET kept  == SelectSeq(nltk_words, LAMBDA word : Len(word) = WordLength)
           words == [i \in 1..Len(kept) |-> Lower(kept[i])]
       IN  [words |-> words, file |-> FileOf(JoinLines(words)), downloaded |-> TRUE]


(***************************************************************************)
(* analyze_deviation of main.py and the deviation analyses of the two      *)
(* dashboards (src/streamlit).  The dashboards define                      *)
(* calculate_letter_frequency and calculate_probabilities with the bodies  *)
(* main.py gives them.                                                     *)
(***************************************************************************)
\* The letters of the model in the order of str comparison
LetterOrder == <<"a", "b", "c">>

\* sorted(keys) for a set of letters
Sorted(keys) == SelectSeq(LetterOrder, LAMBDA k : k \in keys)

\* The distribution of the letters of a word list, as all three programs
\* compute it: calculate_probabilities(freq, sum(freq.values()))
LetterProbabilities(words) ==
  LET freq == calculate_letter_frequency(words)
  IN  calculate_probabilities(freq, SumInts(Values(freq))).returned

\* main.py, analyze_deviation: tvd
analyze_deviation(wordle_list_, five_letter_words_, order, compensated) ==
  LET wordle_probs  == LetterProbabilities(wordle_list_)
      english_probs == LetterProbabilities(five_letter_words_)
  IN  total_variation_distance(wordle_probs, english_probs, order, compensated)

\* As comparison_tvd, but summed over the letters of the Wordle list only
comparison_tvd_wordle_letters(wordle_words_, five_letter_words_, compensated) ==
  LET wordle_freq   == calculate_letter_frequency(wordle_words_)
      letters       == Sorted(Keys(wordle_freq))
      wordle_probs  == LetterProbabilities(wordle_words_)
      english_probs == LetterProbabilities(five_letter_words_)
  IN  FHalf(PySum([i \in 1..Len(letters) |->
                     FAbs(FSub(Get(wordle_probs, letters[i], Zero),
                               Get(english_probs, letters[i], Zero)))],
                  compensated))

\* comparison_wordle_analysis.py: tvd, summed over letters, the sorted union
\* of the keys of the two frequency mappings
comparison_tvd(wordle_words_, five_letter_words_, compensated) ==
  LET wordle_freq   == calculate_letter_frequency(wordle_words_)
      english_freq  == calculate_letter_frequency(five_letter_words_)
      letters       == Sorted(Keys(wordle_freq) \cup Keys(english_freq))
      wordle_probs  == LetterProbabilities(wordle_words_)
      english_probs == LetterProbabilities(five_letter_words_)
  IN  FHalf(PySum([i \in 1..Len(letters) |->
                     FAbs(FSub(Get(wordle_probs, letters[i], Zero),
                               Get(english_probs, letters[i], Zero)))],
                  compensated))

\* interactive_wordle_analysis.py: deviation, summed over the set union of
\* the keys of the two distributions in the order the set iterates
interactive_deviation(word_list_, five_letter_words_, order, compensated) ==
  LET wordle_prob  == LetterProbabilities(word_list_)
      english_prob == LetterProbabilities(five_letter_words_)
  IN  FHalf(PySum([i \in 1..Len(order) |->
                     FAbs(FSub(Get(wordle_prob, order[i], Zero),
                               Get(english_prob, order[i], Zero)))],
                  compensated))


(***************************************************************************)
(* Bounds and inputs                                                       *)
(***************************************************************************)
MaxWords == 3
MaxWordLen == 2

Alphabet == {"a", "b"}

SeqsUpTo(S, n) == UNION {[1..k -> S] : k \in 0..n}

Words == SeqsUpTo(Alphabet, MaxWordLen)

\* The corpus of the concrete scenario: ["apple", "angle", "ankle"]
ScenarioCorpus ==
  << <<"a", "p", "p", "l", "e">>, <<"a", "n", "g", "l", "e">>, <<"a", "n", "k", "l", "e">> >>

Corpora == SeqsUpTo(Words, MaxWords) \cup {ScenarioCorpus}

\* Frequency mappings handed to calculate_probabilities: letters in any
\* insertion order, each with a count of at most MaxCount
MaxCount == 4

Letters == {"a", "b", "c"}

KeySeqs ==
  {ks \in SeqsUpTo(Letters, Cardinality(Letters)) :
     \A i, j \in DOMAIN ks : ks[i] = ks[j] => i = j}

FreqDicts ==
  UNION {{[i \in DOMAIN ks |-> <<ks[i], cs[i]>>] : cs \in [DOMAIN ks -> 0..MaxCount]} :
           ks \in KeySeqs}

\* Probability distributions handed to total_variation_distance: those
\* calculate_probabilities returns for positive counts of at most MaxTotal
\* letters in all, the empty dict, and the distributions of the scenarios
MaxTotal == 4

SortedKeySeqs ==
  {ks \in KeySeqs :
     \A i, j \in DOMAIN ks :
       i < j => \E m, n \in DOMAIN LetterOrder :
                  m < n /\ LetterOrder[m] = ks[i] /\ LetterOrder[n] = ks[j]}

CountDicts ==
  UNION {{[i \in DOMAIN ks |-> <<ks[i], cs[i]>>] : cs \in [DOMAIN ks -> 1..MaxTotal]} :
           ks \in SortedKeySeqs \ {<<>>}}

Normalised(f) == calculate_probabilities(f, SumInts(Values(f))).returned

\* {a:0.5, b:0.5} and {a:0.5, b:0.3, c:0.2}
ScenarioDist1 == Normalised(<< <<"a", 1>>, <<"b", 1>> >>)

ScenarioDist2 == Normalised(<< <<"a", 5>>, <<"b", 3>>, <<"c", 2>> >>)

\* The letter distributions of the word lists ["abbbb"] and ["ccddd"]
AbbbbDist == Normalised(calculate_letter_frequency(<< <<"a", "b", "b", "b", "b">> >>))

CcdddDist == Normalised(calculate_letter_frequency(<< <<"c", "c", "d", "d", "d">> >>))

Distributions ==
  {Normalised(f) : f \in {g \in CountDicts : SumInts(Values(g)) <= MaxTotal}}
    \cup {<<>>, ScenarioDist1, ScenarioDist2, AbbbbDist, CcdddDist}

\* Frequency mappings handed to get_top_letters: what Counter returns (every
\* count at least 1), and the mapping of the ranking scenario in two
\* insertion orders
CounterDicts == {f \in FreqDicts : \A i \in 1..Len(f) : f[i][2] >= 1}

ScenarioRanking == << <<"a", 5>>, <<"b", 3>>, <<"c", 3>>, <<"d", 1>> >>

ScenarioRankingCFirst == << <<"a", 5>>, <<"c", 3>>, <<"b", 3>>, <<"d", 1>> >>

RankedDicts == CounterDicts \cup {ScenarioRanking, ScenarioRankingCFirst}

MaxTopN == 3

DefaultTopN == 10

TopNs == (0..MaxTopN) \cup {DefaultTopN}

\* What a run of main finds: the text of the web page's paragraph, the
\* responses of the web server, the words of the NLTK corpus, and the two
\* files as earlier runs or the user left them
PageTexts ==
  { <<"A", "B", "|", " ", "b", "a">>, <<"b", "a">>, <<>> }

Responses ==
  {[status_code |-> 200, section_header |-> TRUE, answers_paragraph |-> TRUE, text |-> t] :
     t \in PageTexts}
    \cup {[status_code |-> 404, section_header |-> FALSE, answers_paragraph |-> FALSE,
           text |-> <<>>],
          [status_code |-> 200, section_header |-> FALSE, answers_paragraph |-> FALSE,
           text |-> <<>>],
          [status_code |-> 200, section_header |-> TRUE, answers_paragraph |-> FALSE,
           text |-> <<>>]}

NltkCorpora ==
  { << <<"A", "p", "p", "l", "e">>, <<"t", "o">>, <<"a", "n", "g", "l", "e">> >>,
    << <<"t", "o">> >> }

WordleFiles == {NoFile} \cup {FileOf(t) : t \in PageTexts}

FiveLetterFiles ==
  {NoFile,
   FileOf(<<"a", "p", "p", "l", "e", "\n", "a", "n", "k", "l", "e">>),
   FileOf(<<"a", "b", "\n">>)}

MaxRuns == 2

\* Word lists loaded by the dashboards and handed to analyze_deviation:
\* one word of up to MaxLetters letters (the letters in a fixed order: the
\* three sums take the letters in sorted or set order, never in the order
\* of the words), and a list of two words
MaxLetters == 3

LetterRank(c) == CHOOSE i \in 1..Len(LetterOrder) : LetterOrder[i] = c

DashWords ==
  {w \in SeqsUpTo(Letters, MaxLetters) :
     \A i, j \in 1..Len(w) : i < j => LetterRank(w[i]) <= LetterRank(w[j])}

DashWordLists == {<<w>> : w \in DashWords} \cup {<< <<"a", "b">>, <<"c", "a">> >>}

(***************************************************************************)
(* State: the arguments and the outcome of each call                       *)
(***************************************************************************)
VARIABLES
  word_list,        \* calculate_letter_frequency / calculate_positional_frequency
  letter_freq,
  positional_freq,
  freq_dict,        \* calculate_probabilities
  total_count,
  probs,
  prob_dist1,       \* total_variation_distance
  prob_dist2,
  tvd,              \* total_variation_distance(prob_dist1, prob_dist2)
  tvd_reversed,     \* total_variation_distance(prob_dist2, prob_dist1)
  compensated_sum,  \* the interpreter's sum() is the compensated one
  top_freq,         \* get_top_letters and the percentage column of main
  top_n,
  top_letters,
  top_percentage,
  pc,               \* main: the step the run is at
  runs,             \* the runs of main started so far
  wordle_txt,       \* the file wordle.txt
  five_letter_txt,  \* the file five_letter_words.txt
  wordle_answers,
  wordle_list,
  five_letter_words,
  error,            \* the exception main caught, or "none"
  web_requests,     \* requests sent to the web page so far
  corpus_downloads, \* downloads of the NLTK corpus so far
  wordle_words,     \* the two word lists of the deviation analyses
  english_words,
  analyze_tvd,      \* main.py, analyze_deviation: tvd
  dashboard_tvd,    \* comparison_wordle_analysis.py: tvd
  deviation         \* interactive_wordle_analysis.py: deviation

freqVars == <<word_list, letter_freq, positional_freq>>

probVars == <<freq_dict, total_count, probs>>

tvdVars == <<prob_dist1, prob_dist2, tvd, tvd_reversed>>

topVars == <<top_freq, top_n, top_letters, top_percentage>>

fileVars == <<wordle_txt, five_letter_txt>>

mainVars == <<pc, runs, fileVars, wordle_answers, wordle_list, five_letter_words, error,
              web_requests, corpus_downloads>>

dashVars == <<wordle_words, english_words, analyze_tvd, dashboard_tvd, deviation>>

otherVars == <<topVars, mainVars, dashVars>>

vars == <<freqVars, probVars, tvdVars, compensated_sum, otherVars>>

NoFreqCall == word_list = <<>> /\ letter_freq = NotCalled /\ positional_freq = NotCalled

NoProbCall == freq_dict = <<>> /\ total_count = 0 /\ probs = NotCalled

NoTvdCall ==
  prob_dist1 = <<>> /\ prob_dist2 = <<>> /\ tvd = NotCalled /\ tvd_reversed = NotCalled

NoTopCall ==
  top_freq = <<>> /\ top_n = 0 /\ top_letters = NotCalled /\ top_percentage = NotCalled

NoLocals ==
  wordle_answers = <<>> /\ wordle_list = <<>> /\ five_letter_words = <<>> /\ error = "none"

NoMainRun ==
  /\ pc = "idle"
  /\ runs = 0
  /\ wordle_txt = NoFile
  /\ five_letter_txt = NoFile
  /\ NoLocals
  /\ web_requests = 0
  /\ corpus_downloads = 0

NoDeviationCall ==
  /\ wordle_words = <<>>
  /\ english_words = <<>>
  /\ analyze_tvd = NotCalled
  /\ dashboard_tvd = NotCalled
  /\ deviation = NotCalled

NoOtherCall == NoTopCall /\ NoMainRun /\ NoDeviationCall

\* The frequency engine on a word list
Init ==
  /\ word_list \in Corpora
  /\ letter_freq = NotCalled
  /\ positional_freq = NotCalled
  /\ NoProbCall
  /\ NoTvdCall
  /\ compensated_sum = FALSE
  /\ NoOtherCall

CalculateLetterFrequency ==
  /\ letter_freq = NotCalled
  /\ letter_freq' = Returned(calculate_letter_frequency(word_list))
  /\ UNCHANGED <<word_list, positional_freq, probVars, tvdVars, compensated_sum, otherVars>>

CalculatePositionalFrequency ==
  /\ positional_freq = NotCalled
  /\ positional_freq' = calculate_positional_frequency(word_list)
  /\ UNCHANGED <<word_list, letter_freq, probVars, tvdVars, compensated_sum, otherVars>>

Next ==
  \/ CalculateLetterFrequency
  \/ CalculatePositionalFrequency

Spec == Init /\ [][Next]_vars

\* calculate_probabilities on a frequency mapping and a total
InitProb ==
  /\ NoFreqCall
  /\ freq_dict \in FreqDicts
  /\ total_count \in 0..(Cardinality(Letters) * MaxCount)
  /\ probs = NotCalled
  /\ NoTvdCall
  /\ compensated_sum \in BOOLEAN
  /\ NoOtherCall

CalculateProbabilities ==
  /\ probs = NotCalled
  /\ probs' = calculate_probabilities(freq_dict, total_count)
  /\ UNCHANGED <<freqVars, freq_dict, total_count, tvdVars, compensated_sum, otherVars>>

NextProb == CalculateProbabilities

SpecProb == InitProb /\ [][NextProb]_vars

\* total_variation_distance on two distributions, called both ways round
InitTVD ==
  /\ NoFreqCall
  /\ NoProbCall
  /\ prob_dist1 \in Distributions
  /\ prob_dist2 \in Distributions
  /\ tvd = NotCalled
  /\ tvd_reversed = NotCalled
  /\ compensated_sum \in BOOLEAN
  /\ NoOtherCall

TotalVariationDistance ==
  /\ tvd = NotCalled
  /\ \E order \in Orders(Keys(prob_dist1) \cup Keys(prob_dist2)) :
       tvd' = Returned(total_variation_distance(prob_dist1, prob_dist2, order,
                                                compensated_sum))
  /\ UNCHANGED <<freqVars, probVars, prob_dist1, prob_dist2, tvd_reversed, compensated_sum, otherVars>>

TotalVariationDistanceReversed ==
  /\ tvd_reversed = NotCalled
  /\ \E order \in Orders(Keys(prob_dist2) \cup Keys(prob_dist1)) :
       tvd_reversed' = Returned(total_variation_distance(prob_dist2, prob_dist1, order,
                                                         compensated_sum))
  /\ UNCHANGED <<freqVars, probVars, prob_dist1, prob_dist2, tvd, compensated_sum, otherVars>>

NextTVD ==
  \/ TotalVariationDistance
  \/ TotalVariationDistanceReversed

SpecTVD == InitTVD /\ [][NextTVD]_vars

\* get_top_letters on a frequency mapping, then the percentage column as
\* step 4-1 of main adds it
InitTop ==
  /\ NoFreqCall
  /\ NoProbCall
  /\ NoTvdCall
  /\ compensated_sum = FALSE
  /\ top_freq \in RankedDicts
  /\ top_n \in TopNs
  /\ top_letters = NotCalled
  /\ top_percentage = NotCalled
  /\ NoMainRun
  /\ NoDeviationCall

GetTopLetters ==
  /\ top_letters = NotCalled
  /\ top_letters' = Returned(get_top_letters(top_freq, top_n))
  /\ UNCHANGED <<freqVars, probVars, tvdVars, compensated_sum,
                 top_freq, top_n, top_percentage, mainVars, dashVars>>

AddPercentage ==
  /\ HasReturned(top_letters)
  /\ top_percentage = NotCalled
  /\ top_percentage' = Returned(add_percentage(top_letters.returned, top_freq))
  /\ UNCHANGED <<freqVars, probVars, tvdVars, compensated_sum,
                 top_freq, top_n, top_letters, mainVars, dashVars>>

NextTop ==
  \/ GetTopLetters
  \/ AddPercentage

SpecTop == InitTop /\ [][NextTop]_vars

\* Runs of main, one after the other, on the files the runs before left
engineVars == <<freqVars, probVars, tvdVars, compensated_sum, topVars, dashVars>>

InitMain ==
  /\ NoFreqCall
  /\ NoProbCall
  /\ NoTvdCall
  /\ compensated_sum = FALSE
  /\ NoTopCall
  /\ pc = "fetch"
  /\ runs = 1
  /\ wordle_txt \in WordleFiles
  /\ five_letter_txt \in FiveLetterFiles
  /\ NoLocals
  /\ web_requests = 0
  /\ corpus_downloads = 0
  /\ NoDeviationCall

\* The exception reaches the handler at the foot of main, which prints it
Caught(exc) ==
  /\ error' = exc
  /\ pc' = "done"

\* Step 1, first half: fetch_wordle_answers(wordle_url)
FetchWordleAnswers ==
  /\ pc = "fetch"
  /\ web_requests' = web_requests + 1
  /\ \/ \E response \in Responses :
          LET answers == fetch_wordle_answers(response) IN
          IF HasReturned(answers)
          THEN wordle_answers' = answers.returned /\ pc' = "save" /\ UNCHANGED error
          ELSE Caught(answers.raised) /\ UNCHANGED wordle_answers
     \/ \* requests.get raises: the server is not reached
        Caught("RequestException") /\ UNCHANGED wordle_answers
  /\ UNCHANGED <<engineVars, runs, fileVars, wordle_list, five_letter_words,
                 corpus_downloads>>

\* Step 1, second half: save_to_file(wordle_answers, file_path)
SaveWordleAnswers ==
  /\ pc = "save"
  /\ wordle_txt' = save_to_file(wordle_answers, wordle_txt)
  /\ pc' = "read"
  /\ UNCHANGED <<engineVars, runs, five_letter_txt, wordle_answers, wordle_list,
                 five_letter_words, error, web_requests, corpus_downloads>>

\* Step 2: read_from_file and split_words_to_list
ReadWordleAnswers ==
  /\ pc = "read"
  /\ wordle_list' = split_words_to_list(read_from_file(wordle_txt))
  /\ pc' = "english"
  /\ UNCHANGED <<engineVars, runs, fileVars, wordle_answers, five_letter_words, error,
                 web_requests, corpus_downloads>>

\* Step 3: save_five_letter_words_to_file()
SaveFiveLetterWords ==
  /\ pc = "english"
  /\ \/ \E nltk_words \in NltkCorpora :
          LET saved == save_five_letter_words_to_file(five_letter_txt, nltk_words) IN
          /\ five_letter_words' = saved.words
          /\ five_letter_txt' = saved.file
          /\ corpus_downloads' = corpus_downloads + (IF saved.downloaded THEN 1 ELSE 0)
          /\ pc' = "analyze"
          /\ UNCHANGED error
     \/ \* the download fails and nltk_words.words() raises
        /\ save_five_letter_words_to_file(five_letter_txt, <<>>).downloaded
        /\ corpus_downloads' = corpus_downloads + 1
        /\ Caught("LookupError")
        /\ UNCHANGED <<five_letter_words, five_letter_txt>>
  /\ UNCHANGED <<engineVars, runs, wordle_txt, wordle_answers, wordle_list, web_requests>>

\* Steps 4 to 7: the frequencies, the charts and the deviation; they work on
\* the two lists in memory.  The positional frequencies raise on lists the
\* engine does not take, the plotting libraries may raise as well
AnalyzeAndVisualize ==
  /\ pc = "analyze"
  /\ LET wordle  == calculate_positional_frequency(wordle_list)
         english == calculate_positional_frequency(five_letter_words)
     IN  IF ~HasReturned(wordle) THEN Caught(wordle.raised)
         ELSE IF ~HasReturned(english) THEN Caught(english.raised)
         ELSE \/ pc' = "done" /\ UNCHANGED error
              \/ Caught("Exception")
  /\ UNCHANGED <<engineVars, runs, fileVars, wordle_answers, wordle_list,
                 five_letter_words, web_requests, corpus_downloads>>

\* The script is started again
RunMain ==
  /\ pc = "done"
  /\ runs < MaxRuns
  /\ runs' = runs + 1
  /\ pc' = "fetch"
  /\ wordle_answers' = <<>>
  /\ wordle_list' = <<>>
  /\ five_letter_words' = <<>>
  /\ error' = "none"
  /\ UNCHANGED <<engineVars, fileVars, web_requests, corpus_downloads>>

NextMain ==
  \/ FetchWordleAnswers
  \/ SaveWordleAnswers
  \/ ReadWordleAnswers
  \/ SaveFiveLetterWords
  \/ AnalyzeAndVisualize
  \/ RunMain

SpecMain == InitMain /\ [][NextMain]_vars

\* The three deviation analyses on the same two word lists
InitDeviation ==
  /\ NoFreqCall
  /\ NoProbCall
  /\ NoTvdCall
  /\ compensated_sum \in BOOLEAN
  /\ NoTopCall
  /\ NoMainRun
  /\ wordle_words \in DashWordLists
  /\ english_words \in DashWordLists
  /\ analyze_tvd = NotCalled
  /\ dashboard_tvd = NotCalled
  /\ deviation = NotCalled

UnionLetters ==
  Keys(calculate_letter_frequency(wordle_words))
    \cup Keys(calculate_letter_frequency(english_words))

AnalyzeDeviation ==
  /\ analyze_tvd = NotCalled
  /\ \E order \in Orders(UnionLetters) :
       analyze_tvd' = Returned(analyze_deviation(wordle_words, english_words, order,
                                                 compensated_sum))
  /\ UNCHANGED <<freqVars, probVars, tvdVars, compensated_sum, topVars, mainVars,
                 wordle_words, english_words, dashboard_tvd, deviation>>

ComparisonDashboard ==
  /\ dashboard_tvd = NotCalled
  /\ dashboard_tvd' = Returned(comparison_tvd(wordle_words, english_words, compensated_sum))
  /\ UNCHANGED <<freqVars, probVars, tvdVars, compensated_sum, topVars, mainVars,
                 wordle_words, english_words, analyze_tvd, deviation>>

\* The deviation is computed when the Wordle dataset is the one selected
InteractiveDashboard ==
  /\ deviation = NotCalled
  /\ \E dataset_option \in {"Wordle", "English"} :
       IF dataset_option = "Wordle"
       THEN \E order \in Orders(UnionLetters) :
              deviation' = Returned(interactive_deviation(wordle_words, english_words,
                                                          order, compensated_sum))
       ELSE deviation' = [skipped |-> TRUE]
  /\ UNCHANGED <<freqVars, probVars, tvdVars, compensated_sum, topVars, mainVars,
                 wordle_words, english_words, analyze_tvd, dashboard_tvd>>

NextDeviation ==
  \/ AnalyzeDeviation
  \/ ComparisonDashboard
  \/ InteractiveDashboard

SpecDeviation == InitDeviation /\ [][NextDeviation]_vars

(***************************************************************************)
(* Frequency engine: properties                                            *)
(***************************************************************************)
SameLength(ws) == \A i, j \in 1..Len(ws) : Len(ws[i]) = Len(ws[j])

CharsOf(ws) == UNION {{ws[i][j] : j \in 1..Len(ws[i])} : i \in 1..Len(ws)}

DistinctKeys(d) == \A i, j \in 1..Len(d) : d[i][1] = d[j][1] => i = j

NoShorterThanFirst(ws) == \A w \in 1..Len(ws) : Len(ws[w]) >= Len(ws[1])

\* C1: for a non-empty corpus of words of one length L, the letter counts sum
\* to L times the number of words, and the keys are exactly the characters
\* that occur, each counted at least once.
C1_LetterCounts ==
  (HasReturned(letter_freq) /\ word_list # <<>> /\ SameLength(word_list)) =>
    LET f == letter_freq.returned IN
      /\ SumInts(Values(f)) = Len(word_list[1]) * Len(word_list)
      /\ DistinctKeys(f)
      /\ Keys(f) = CharsOf(word_list)
      /\ \A i \in 1..Len(f) : f[i][2] >= 1

C1_Witness ==
  /\ HasReturned(letter_freq)
  /\ Len(word_list) = MaxWords
  /\ SameLength(word_list)
  /\ Len(word_list[1]) = MaxWordLen
  /\ Cardinality(Keys(letter_freq.returned)) = 2
  /\ \E i \in 1..Len(letter_freq.returned) : letter_freq.returned[i][2] > 1

\* The entries 1..L of a returned positional frequency, each summing to the
\* number of words.
PositionalEntries(ws, L) ==
  /\ HasReturned(positional_freq)
  /\ LET pf == positional_freq.returned IN
       /\ DistinctKeys(pf)
       /\ Keys(pf) = 1..L
       /\ \A i \in 1..Len(pf) : SumInts(Values(pf[i][2])) = Len(ws)

\* C2 as stated: for every corpus the call returns an entry for each position
\* 1..L, each summing to the number of words.
C2_AllCorpora ==
  (positional_freq # NotCalled) =>
    PositionalEntries(word_list, IF word_list = <<>> THEN 0 ELSE Len(word_list[1]))

\* C2 (amended): for every non-empty corpus in which no word is shorter than
\* the first word, the call returns an entry for each position 1..L, L the
\* length of the first word, and the counts of each entry sum to the number of
\* words.
C2_PositionalCounts ==
  (positional_freq # NotCalled /\ word_list # <<>> /\ NoShorterThanFirst(word_list)) =>
    PositionalEntries(word_list, Len(word_list[1]))

C2_Witness ==
  /\ HasReturned(positional_freq)
  /\ Len(word_list) = MaxWords
  /\ Len(word_list[1]) = MaxWordLen
  /\ Len(positional_freq.returned) = MaxWordLen

\* The letter frequency of the scenario as the claim states it
StatedLetterFrequency ==
  [ch \in {"a", "p", "l", "e", "n", "g", "k"} |->
     CASE ch \in {"a", "l"} -> 3
       [] ch \in {"p", "e", "n"} -> 2
       [] OTHER -> 1]

\* The same with e counted three times ("apple", "angle" and "ankle" each end
\* in e)
CountedLetterFrequency == [StatedLetterFrequency EXCEPT !["e"] = 3]

ScenarioResults(expected) ==
  (word_list = ScenarioCorpus) =>
    /\ HasReturned(letter_freq) =>
         LET f == letter_freq.returned IN
           /\ DistinctKeys(f)
           /\ Keys(f) = DOMAIN expected
           /\ \A ch \in Keys(f) : Get(f, ch, 0) = expected[ch]
    /\ positional_freq # NotCalled =>
         /\ HasReturned(positional_freq)
         /\ Get(positional_freq.returned, 1, <<>>) = << <<"a", 3>> >>

\* C3 as stated: on ["apple", "angle", "ankle"] the letter frequency is
\* exactly a:3, p:2, l:3, e:2, n:2, g:1, k:1 and the positional frequency at
\* position 1 is {a:3}.
C3_AsStated == ScenarioResults(StatedLetterFrequency)

\* C3 (amended): on ["apple", "angle", "ankle"] the letter frequency is
\* exactly a:3, p:2, l:3, e:3, n:2, g:1, k:1 and the positional frequency at
\* position 1 is {a:3}.
C3_Scenario == ScenarioResults(CountedLetterFrequency)

C3_Witness ==
  /\ word_list = ScenarioCorpus
  /\ HasReturned(letter_freq)
  /\ HasReturned(positional_freq)

\* C10: L is the length of the first word; the call raises an indexing error
\* and returns nothing whenever some word is shorter than L; otherwise it
\* returns, a longer word raises nothing and the entries are those of the
\* positions 1..L alone, each counting the characters at that position.
C10_IndexError ==
  (positional_freq # NotCalled /\ word_list # <<>>) =>
    LET L == Len(word_list[1]) IN
      IF \E w \in 1..Len(word_list) : Len(word_list[w]) < L
      THEN positional_freq = Raised("IndexError")
      ELSE /\ HasReturned(positional_freq)
           /\ LET pf == positional_freq.returned IN
                /\ Keys(pf) = 1..L
                /\ \A p \in 1..L :
                     LET entry == Get(pf, p, <<>>) IN
                       /\ DistinctKeys(entry)
                       /\ \A ch \in Keys(entry) \cup CharsOf(word_list) :
                            Get(entry, ch, 0) =
                              Cardinality({w \in 1..Len(word_list) : word_list[w][p] = ch})

C10_Witness ==
  /\ positional_freq = Raised("IndexError")
  /\ Len(word_list) = MaxWords
  /\ Len(word_list[1]) = MaxWordLen
  /\ Len(word_list[2]) > Len(word_list[3])
  /\ Len(word_list[3]) < MaxWordLen

(***************************************************************************)
(* Exact arithmetic on the values of floats, for stating the properties:   *)
(* a non-negative dyadic rational [m, e] of value m * 2^e.                 *)
(***************************************************************************)
Dy(x) == [m |-> x.m, e |-> x.e]

DyAligned(a, b) ==
  LET e0 == IF a.e < b.e THEN a.e ELSE b.e
  IN  [a |-> ShiftLeft(a.m, a.e - e0), b |-> ShiftLeft(b.m, b.e - e0), e |-> e0]

DyCmp(a, b) == LET al == DyAligned(a, b) IN BCmp(al.a, al.b)

DyAdd(a, b) == LET al == DyAligned(a, b) IN [m |-> BAdd(al.a, al.b), e |-> al.e]

DyAbsDiff(a, b) ==
  LET al == DyAligned(a, b)
  IN  [m |-> IF BCmp(al.a, al.b) >= 0 THEN BSub(al.a, al.b) ELSE BSub(al.b, al.a),
       e |-> al.e]

DyMin(a, b) == IF DyCmp(a, b) <= 0 THEN a ELSE b

DyHalf(a) == [a EXCEPT !.e = a.e - 1]

RECURSIVE DySum(_)
DySum(xs) == IF xs = <<>> THEN Dy(Zero) ELSE DyAdd(Head(xs), DySum(Tail(xs)))

\* 1e-9, the float nearest to 10^-9
Tolerance == [s |-> 1, m |-> <<22165, 20557, 14383, 137>>, e |-> -82]

DyClose(a, b) == DyCmp(DyAbsDiff(a, b), Dy(Tolerance)) <= 0

\* abs(x - y) <= 1e-9
Close(x, y) == FLe(FAbs(FSub(x, y)), Tolerance)

NonNegative(d) == \A i \in 1..Len(d) : FLe(Zero, d[i][2])

\* Non-negative values that sum to 1 (to within 1e-9, each value being a
\* rounded quotient)
IsDistribution(d) ==
  /\ d # <<>>
  /\ NonNegative(d)
  /\ DyClose(DySum([i \in 1..Len(d) |-> Dy(d[i][2])]), Dy(One))

UnionKeys == Keys(prob_dist1) \cup Keys(prob_dist2)

SameOnEveryKey ==
  \A k \in UnionKeys : Get(prob_dist1, k, Zero) = Get(prob_dist2, k, Zero)

DisjointSupport ==
  ~\E k \in UnionKeys :
     /\ FLt(Zero, Get(prob_dist1, k, Zero))
     /\ FLt(Zero, Get(prob_dist2, k, Zero))

KeySeq(keys) == CHOOSE o \in Orders(keys) : TRUE

\* Half the sum over the union of the keys of |p(k) - q(k)|, exactly
ExactHalfSum ==
  LET ks == KeySeq(UnionKeys)
  IN  DyHalf(DySum([i \in 1..Len(ks) |->
                      DyAbsDiff(Dy(Get(prob_dist1, ks[i], Zero)),
                                Dy(Get(prob_dist2, ks[i], Zero)))]))

\* The mass the two distributions share: the sum of min(p(k), q(k)), exactly
SharedMass ==
  LET ks == KeySeq(UnionKeys)
  IN  DySum([i \in 1..Len(ks) |->
               DyMin(Dy(Get(prob_dist1, ks[i], Zero)), Dy(Get(prob_dist2, ks[i], Zero)))])

(***************************************************************************)
(* Probability engine: properties                                          *)
(***************************************************************************)
\* C4: the distance is 0 if and only if the two distributions give every key
\* of the combined key set the same probability (a missing key counting as
\* 0); in particular the distance of a distribution to itself is 0.
C4_ZeroIffSame ==
  /\ HasReturned(tvd) =>
       /\ (tvd.returned = Zero) <=> SameOnEveryKey
       /\ (prob_dist1 = prob_dist2) => (tvd.returned = Zero)
  /\ HasReturned(tvd_reversed) =>
       ((tvd_reversed.returned = Zero) <=> SameOnEveryKey)

C4_Witness ==
  /\ HasReturned(tvd)
  /\ tvd.returned = Zero
  /\ prob_dist1 = prob_dist2
  /\ Len(prob_dist1) = 3

\* C5 as stated: for two probability distributions the distance is 1 if and
\* only if their supports are disjoint.
C5_OneIffDisjoint ==
  (HasReturned(tvd) /\ IsDistribution(prob_dist1) /\ IsDistribution(prob_dist2)) =>
    ((tvd.returned = One) <=> DisjointSupport)

\* C5 (amended): for two probability distributions the distance is 1 less the
\* mass they share, the sum over the keys of min(p(k), q(k)), to within 1e-9:
\* with disjoint supports it is within 1e-9 of 1 (not always exactly 1.0), and
\* it is not 1 when the shared mass exceeds 1e-9.
C5_OneUpToRounding ==
  (HasReturned(tvd) /\ IsDistribution(prob_dist1) /\ IsDistribution(prob_dist2)) =>
    /\ FLe(Zero, tvd.returned)
    /\ DyClose(DyAdd(Dy(tvd.returned), SharedMass), Dy(One))
    /\ DisjointSupport => Close(tvd.returned, One)
    /\ (tvd.returned = One /\ DyCmp(SharedMass, Dy(Tolerance)) > 0) => DisjointSupport

C5_Witness ==
  /\ HasReturned(tvd)
  /\ IsDistribution(prob_dist1)
  /\ IsDistribution(prob_dist2)
  /\ DisjointSupport
  /\ tvd.returned # One

Fifth == TrueDiv(2, 10)

HalfSumUpToRounding == FLe(Zero, tvd.returned) /\ DyClose(Dy(tvd.returned), ExactHalfSum)

ScenarioDistance ==
  (prob_dist1 = ScenarioDist1 /\ prob_dist2 = ScenarioDist2) => tvd.returned = Fifth

\* C6 as stated: the distance is half the sum over the union of the keys of
\* |p(k) - q(k)|, a missing key counting as 0; for two probability
\* distributions it lies in [0, 1]; for {a:0.5, b:0.5} and
\* {a:0.5, b:0.3, c:0.2} it is 0.2.
C6_InUnitInterval ==
  HasReturned(tvd) =>
    /\ HalfSumUpToRounding
    /\ (IsDistribution(prob_dist1) /\ IsDistribution(prob_dist2)) =>
         (FLe(Zero, tvd.returned) /\ FLe(tvd.returned, One))
    /\ ScenarioDistance

\* C6 (amended): the distance is half the sum over the union of the keys of
\* |p(k) - q(k)|, a missing key counting as 0, up to the rounding of the
\* float sum; for two probability distributions it lies in [0, 1 + 1e-9] (it
\* can exceed 1 in the last place); for {a:0.5, b:0.5} and
\* {a:0.5, b:0.3, c:0.2} it is 0.2.
C6_HalfSum ==
  HasReturned(tvd) =>
    /\ HalfSumUpToRounding
    /\ (IsDistribution(prob_dist1) /\ IsDistribution(prob_dist2)) =>
         (FLe(Zero, tvd.returned) /\ FLe(tvd.returned, FAdd(One, Tolerance)))
    /\ ScenarioDistance

C6_Witness ==
  /\ prob_dist1 = ScenarioDist1
  /\ prob_dist2 = ScenarioDist2
  /\ HasReturned(tvd)
  /\ tvd.returned = Fifth

\* C7 as stated: the distance of p to q equals the distance of q to p.
C7_Symmetric ==
  (HasReturned(tvd) /\ HasReturned(tvd_reversed)) => tvd.returned = tvd_reversed.returned

\* C7 (amended): the distance of p to q and the distance of q to p agree to
\* within 1e-9; they are equal when both calls iterate the keys in the same
\* order, and can differ in the last place otherwise.
C7_SymmetricUpToRounding ==
  (HasReturned(tvd) /\ HasReturned(tvd_reversed)) =>
    /\ Close(tvd.returned, tvd_reversed.returned)
    /\ \A order \in Orders(UnionKeys) :
         total_variation_distance(prob_dist1, prob_dist2, order, compensated_sum)
           = total_variation_distance(prob_dist2, prob_dist1, order, compensated_sum)

C7_Witness ==
  /\ HasReturned(tvd)
  /\ HasReturned(tvd_reversed)
  /\ Keys(prob_dist1) # Keys(prob_dist2)
  /\ tvd.returned # tvd_reversed.returned

ProbsOfSum == HasReturned(probs) /\ total_count > 0 /\ total_count = SumInts(Values(freq_dict))

SameKeysInUnitInterval ==
  LET p == probs.returned IN
    /\ [i \in 1..Len(p) |-> p[i][1]] = [i \in 1..Len(freq_dict) |-> freq_dict[i][1]]
    /\ \A i \in 1..Len(p) : FLe(Zero, p[i][2]) /\ FLe(p[i][2], One)

\* C8 as stated: for a frequency mapping of total count greater than 0 the
\* probabilities have the keys of the mapping, lie in [0, 1] and sum to 1.
C8_SumToOne ==
  ProbsOfSum =>
    /\ SameKeysInUnitInterval
    /\ PySum(Values(probs.returned), compensated_sum) = One

\* C8 (amended): for a frequency mapping of total count greater than 0 the
\* probabilities have the keys of the mapping, lie in [0, 1] and sum to 1 to
\* within 1e-9 (the float sum is not always exactly 1.0).
C8_SumToOneUpToRounding ==
  ProbsOfSum =>
    /\ SameKeysInUnitInterval
    /\ Close(PySum(Values(probs.returned), compensated_sum), One)
    /\ DyClose(DySum([i \in 1..Len(probs.returned) |-> Dy(probs.returned[i][2])]), Dy(One))

C8_Witness ==
  /\ ProbsOfSum
  /\ Len(freq_dict) = 3
  /\ PySum(Values(probs.returned), compensated_sum) # One

\* C9 as stated: with a total count of 0 the call fails with a division by
\* zero for every frequency mapping, the empty one included, and returns
\* nothing.
C9_AlwaysRaises ==
  (probs # NotCalled /\ total_count = 0) => probs = Raised("ZeroDivisionError")

\* C9 (amended): with a total count of 0 the call fails with a division by
\* zero for every non-empty frequency mapping and returns nothing; for the
\* empty mapping (that of an empty corpus) nothing is divided and it returns
\* the empty mapping.
C9_RaisesUnlessEmpty ==
  (probs # NotCalled /\ total_count = 0) =>
    IF freq_dict = <<>> THEN probs = Returned(<<>>)
    ELSE probs = Raised("ZeroDivisionError")

C9_Witness ==
  /\ total_count = 0
  /\ Len(freq_dict) = 2
  /\ probs = Raised("ZeroDivisionError")

(***************************************************************************)
(* Ranking utility: properties                                             *)
(***************************************************************************)
\* The index of letter k in the frequency mapping d
IndexOf(d, k) == CHOOSE i \in 1..Len(d) : d[i][1] = k

\* The rows are the first n of the mapping's items in descending count
\* order, items of equal count in the order the mapping iterates them
RankedInInputOrder(rows, d, n) ==
  /\ Len(rows) = (IF n < Len(d) THEN n ELSE Len(d))
  /\ \A i \in 1..Len(rows) :
       HasKey(d, rows[i].Letter) /\ rows[i].Frequency = Get(d, rows[i].Letter, 0)
  /\ \A i, j \in 1..Len(rows) :
       i < j => \/ rows[i].Frequency > rows[j].Frequency
                \/ /\ rows[i].Frequency = rows[j].Frequency
                   /\ IndexOf(d, rows[i].Letter) < IndexOf(d, rows[j].Letter)
  /\ \A k \in Keys(d) :
       (\A i \in 1..Len(rows) : rows[i].Letter # k)
         => \A i \in 1..Len(rows) :
              \/ rows[i].Frequency > Get(d, k, 0)
              \/ /\ rows[i].Frequency = Get(d, k, 0)
                 /\ IndexOf(d, rows[i].Letter) < IndexOf(d, k)

\* The first of b and c in the mapping's iteration order
FirstOfBAndC(d) == IF IndexOf(d, "b") < IndexOf(d, "c") THEN "b" ELSE "c"

\* For {a:5, b:3, c:3, d:1} and n = 2: two rows, (a, 5, percentOfA) and
\* (b or c, 3, 25.0), the tie going to the letter the mapping iterates first
ScenarioRows(percentOfA) ==
  (top_freq \in {ScenarioRanking, ScenarioRankingCFirst} /\ top_n = 2
     /\ HasReturned(top_percentage))
    => top_percentage.returned =
         << [Letter |-> "a", Frequency |-> 5, Percentage |-> percentOfA],
            [Letter |-> FirstOfBAndC(top_freq), Frequency |-> 3,
             Percentage |-> FloatOfInt(25)] >>

\* C11 as stated: ranking {a:5, b:3, c:3, d:1} with n = 2 and adding the
\* percentage against the full total 12 yields exactly (a, 5, 50.0%) followed
\* by (b or c, 3, 25.0%), the tie resolved by input iteration order.
C11_AsStated == ScenarioRows(FloatOfInt(50))

\* C11, amended: ranking {a:5, b:3, c:3, d:1} with n = 2 and adding the
\* percentage against the full total 12 yields exactly (a, 5, 41.67%)
\* followed by (b or c, 3, 25.0%), the tie resolved by input iteration
\* order; in general the rows are the first n items in descending count
\* order, equal counts in input iteration order.
C11_Ranking ==
  /\ ScenarioRows(TrueDiv(4167, 100))
  /\ HasReturned(top_letters) => RankedInInputOrder(top_letters.returned, top_freq, top_n)
  /\ HasReturned(top_percentage)
       => RankedInInputOrder(top_percentage.returned, top_freq, top_n)

C11_Witness ==
  /\ top_freq = ScenarioRankingCFirst
  /\ top_n = 2
  /\ HasReturned(top_percentage)
  /\ top_percentage.returned[1].Percentage = TrueDiv(4167, 100)
  /\ top_percentage.returned[2].Letter = "c"


(***************************************************************************)
(* Runs of main: properties of the word-list files                         *)
(***************************************************************************)
\* A step that finds the file there sends no request / starts no download
\* and leaves the file as it is
WordleCacheKept ==
  wordle_txt.exists => (web_requests' = web_requests /\ wordle_txt' = wordle_txt)

FiveLetterCacheKept ==
  five_letter_txt.exists
    => (corpus_downloads' = corpus_downloads /\ five_letter_txt' = five_letter_txt)

\* The step that produces a word list reads it from its file
WordleListRead ==
  pc = "read" => wordle_list' = split_words_to_list(wordle_txt.text)

FiveLetterWordsRead ==
  (pc = "english" /\ pc' = "analyze" /\ five_letter_txt.exists)
    => five_letter_words' = SplitLines(five_letter_txt.text)

\* C12 as stated: in every run of main each word list is read from its
\* cached file when the file is present, the external source (web page,
\* bundled corpus) is fetched only when the file is absent, and an existing
\* cache file is never fetched over or overwritten.
C12_CacheFirst ==
  [][WordleCacheKept /\ FiveLetterCacheKept /\ WordleListRead /\ FiveLetterWordsRead]_vars

\* Every run requests the web page, and a run whose request succeeds writes
\* the answers over wordle.txt, present or not; nothing else writes the file
WordleAlwaysFetched ==
  /\ pc = "fetch" => web_requests' = web_requests + 1
  /\ pc = "save" => (wordle_answers' = wordle_answers /\ wordle_txt' = FileOf(wordle_answers))
  /\ wordle_txt' # wordle_txt => pc = "save"
  /\ web_requests' # web_requests => pc = "fetch"

\* C12, amended: in every run of main the English word list is read from
\* five_letter_words.txt when that file is present, the bundled corpus is
\* fetched only when the file is absent, and an existing
\* five_letter_words.txt is never fetched over or overwritten; the Wordle
\* answers are requested from the web page in every run, and wordle.txt is
\* overwritten with them whenever the request succeeds, then read back.
C12_EnglishCacheOnly ==
  [][FiveLetterCacheKept /\ FiveLetterWordsRead /\ WordleAlwaysFetched /\ WordleListRead]_vars

\* A second run that found both files, requested the page again and read the
\* English words from the file the first run had written
C12_Witness ==
  /\ runs = 2
  /\ pc = "analyze"
  /\ web_requests = 2
  /\ corpus_downloads = 1
  /\ wordle_txt.exists
  /\ five_letter_txt.exists
  /\ five_letter_words = SplitLines(five_letter_txt.text)
  /\ Len(five_letter_words) = 2


(***************************************************************************)
(* The three deviation analyses: properties                                *)
(***************************************************************************)
NonZeroTotals ==
  /\ calculate_letter_frequency(wordle_words) # <<>>
  /\ calculate_letter_frequency(english_words) # <<>>

\* Half the exact sum of |p(k) - q(k)| over the letters of the two lists
ExactDeviation ==
  LET p == LetterProbabilities(wordle_words)
      q == LetterProbabilities(english_words)
      o == KeySeq(UnionLetters)
  IN  DyHalf(DySum([i \in 1..Len(o) |->
                      DyAbsDiff(Dy(Get(p, o[i], Zero)), Dy(Get(q, o[i], Zero)))]))

\* C13 as stated: for every pair of word lists with non-zero letter totals
\* the inline TVD of the comparison dashboard and the inline TVD of the
\* interactive dashboard both equal total_variation_distance applied to the
\* same two probability distributions.
C13_Agree ==
  NonZeroTotals
    => /\ (HasReturned(dashboard_tvd) /\ HasReturned(analyze_tvd))
            => dashboard_tvd.returned = analyze_tvd.returned
       /\ (HasReturned(deviation) /\ HasReturned(analyze_tvd))
            => deviation.returned = analyze_tvd.returned

\* C13, amended: the three computations agree up to floating-point
\* rounding: each result is within 1e-9 of half the exact sum of
\* |p(k) - q(k)| over the union of the letters, hence of the two others.
C13_AgreeUpToRounding ==
  NonZeroTotals
    => /\ HasReturned(dashboard_tvd) => DyClose(Dy(dashboard_tvd.returned), ExactDeviation)
       /\ HasReturned(deviation) => DyClose(Dy(deviation.returned), ExactDeviation)
       /\ HasReturned(analyze_tvd) => DyClose(Dy(analyze_tvd.returned), ExactDeviation)
       /\ (HasReturned(dashboard_tvd) /\ HasReturned(analyze_tvd))
            => Close(dashboard_tvd.returned, analyze_tvd.returned)
       /\ (HasReturned(deviation) /\ HasReturned(analyze_tvd))
            => Close(deviation.returned, analyze_tvd.returned)

\* The three analyses have run on lists with three letters between them and
\* the results are not all the same float
C13_Witness ==
  /\ NonZeroTotals
  /\ Cardinality(UnionLetters) = 3
  /\ HasReturned(dashboard_tvd)
  /\ HasReturned(deviation)
  /\ HasReturned(analyze_tvd)
  /\ dashboard_tvd.returned # analyze_tvd.returned
  /\ deviation.returned = analyze_tvd.returned

====
